---------------------------- MODULE Spec2Model ----------------------------
(***************************************************************************)
(* The market-data engine of bindings/python/stocks.py: the retrying       *)
(* client (_try_api, _try_request), the trading-day walk and the status    *)
(* check (Market._check_market_state), the two cache refreshes, the        *)
(* subscriber calls (add_symbol, remove_symbol), the render-side draw      *)
(* (Stocks.draw), the sampler (Stocks.Graph.parse) and the renderer        *)
(* (Stocks.Graph.draw).                                                    *)
(*                                                                         *)
(* Scheduler jobs run on the worker threads of the BackgroundScheduler;    *)
(* add_symbol, remove_symbol and draw run on the main thread.              *)
(***************************************************************************)
EXTENDS Integers, Sequences, FiniteSets, TLC

VARIABLES
    symbols,            \* Market.symbols, the tracked list
    pending_checks,     \* one-shot _check_market_state jobs waiting in the job store
    pending_refreshes,  \* one-shot _update_trading_day_data jobs waiting in the job store
    job_ids,            \* ids of the jobs with an explicit id in the job store
    lock,               \* the module-level Lock: "free" or its holder
    th,                 \* th[w]: what worker thread w is running, its position and locals
    last_close_price,   \* Market._last_close_price
    trading_day_data,   \* Market._trading_day_data
    close_partial,      \* the close map is between clear() and the end of its refill
    intraday_partial,   \* the intraday map is between clear() and its assignment
    trading_day,        \* Market.trading_day
    previous_day,       \* Market.previous_day
    today,              \* the calendar day of datetime.now(), as a day number
    before_open,        \* whether the time of datetime.now() is before 9:30
    holidays,           \* weekdays on which the exchange has no session
    probed,             \* days _is_trading_day was called for
    probed_ok,          \* days for which _is_trading_day returned a non-empty result
    draw_pc,            \* Stocks.draw on the main thread: "idle", "locked", "drawn"
    draw_symbol,        \* the symbol of the Stocks object being drawn
    draw_read,          \* whether the running draw read the cache for its symbol
    script,             \* what the upstream does on each attempt of one call
    call_fn,            \* the retrying function last called: "none", "api", "request"
    call_out,           \* what that call returned, its attempts and its total delay
    graph_in,           \* the arguments of Graph.parse and the Graph's width and open_time
    graph,              \* the Graph after parse: data, inflection_pt, and how parse ended
    canvas,             \* the DrawLine calls of Graph.draw, in the order they were made
    poll_in,            \* the market_state record of a poll, and datetime.now() at line 121 / 127
    next_update         \* Market.next_update, in seconds

vars == <<symbols, pending_checks, pending_refreshes, job_ids, lock, th,
          last_close_price, trading_day_data, close_partial, intraday_partial,
          trading_day, previous_day, today, before_open, holidays, probed, probed_ok,
          draw_pc, draw_symbol, draw_read, script, call_fn, call_out, graph_in, graph,
          canvas, poll_in, next_update>>

marketVars == <<symbols, pending_checks, pending_refreshes, job_ids, lock, th,
                last_close_price, trading_day_data, close_partial, intraday_partial,
                trading_day, previous_day, today, before_open, holidays, probed, probed_ok,
                draw_pc, draw_symbol, draw_read>>

retryVars == <<script, call_fn, call_out>>

graphVars == <<graph_in, graph, canvas>>

pollVars == <<poll_in, next_update>>

-----------------------------------------------------------------------------
(* The retrying client: _try_api and _try_request.                         *)

\* tries = 5 in both functions
Tries == 5

\* timeout = 15 (seconds slept after a failed attempt) in both functions
Timeout == 15

\* What one attempt can do: return the JSON, raise BadRequestError, or raise
\* another TwelveDataError (the transient out-of-credits error).
AttemptOutcomes == {"ok", "bad_request", "quota"}

\* One more scripted attempt than the budget, so that an attempt past the
\* budget would show.
ScriptLen == Tries + 1

Scripts == [1..ScriptLen -> AttemptOutcomes]

NoCall == [result |-> "none", attempts |-> 0, slept |-> 0]

\* The while loop of _try_api: n attempts made so far, `tries` left.
RECURSIVE TryApiLoop(_, _, _)
TryApiLoop(s, tries, n) ==
    IF tries > 0
    THEN CASE s[n + 1] = "ok" ->
                [result |-> "json", attempts |-> n + 1, slept |-> Timeout * n]
           [] s[n + 1] = "bad_request" ->
                [result |-> "False", attempts |-> n + 1, slept |-> Timeout * n]
           [] OTHER -> TryApiLoop(s, tries - 1, n + 1)
    ELSE [result |-> "exit", attempts |-> n, slept |-> Timeout * n]

\* _try_api with the loop test off by one (while tries >= 0).
TryApiOneMore(s) == TryApiLoop(s, Tries + 1, 0)

TryApi(s) == TryApiLoop(s, Tries, 0)

\* The while loop of _try_request: BadRequestError is a TwelveDataError and
\* there is no handler of its own, so it is retried like any other.
RECURSIVE TryRequestLoop(_, _, _)
TryRequestLoop(s, tries, n) ==
    IF tries > 0
    THEN IF s[n + 1] = "ok"
         THEN [result |-> "json", attempts |-> n + 1, slept |-> Timeout * n]
         ELSE TryRequestLoop(s, tries - 1, n + 1)
    ELSE [result |-> "exit", attempts |-> n, slept |-> Timeout * n]

TryRequest(s) == TryRequestLoop(s, Tries, 0)

\* Every result a call can come back with, over all upstream behaviours.
ApiResults == {TryApi(s).result : s \in Scripts}

RequestResults == {TryRequest(s).result : s \in Scripts}

RetryIdle == script = [i \in 1..ScriptLen |-> "ok"] /\ call_fn = "none" /\ call_out = NoCall

CallTryApi ==
    /\ call_fn = "none"
    /\ call_fn' = "api"
    /\ call_out' = TryApi(script)
    /\ UNCHANGED <<script, marketVars, graphVars, pollVars>>

CallTryRequest ==
    /\ call_fn = "none"
    /\ call_fn' = "request"
    /\ call_out' = TryRequest(script)
    /\ UNCHANGED <<script, marketVars, graphVars, pollVars>>

-----------------------------------------------------------------------------
(* The sampler: Stocks.Graph.__init__ and Stocks.Graph.parse.  Prices are  *)
(* integers (cents) and the arithmetic is exact.                           *)

\* self.height = 17
Height == 17

\* The widths and the session length the sampler is run with (64 and 390 in
\* Graph.__init__): every width from 2 to MaxWidth, over OpenTime minutes.
MaxWidth == 4

OpenTime == 5

SamplePrices == {98, 99, 101}

ClosePrices == {98, 100, 102}

\* round(n / d) for n >= 0, d > 0, halves to the even neighbour, as
\* numpy.rint and Python's round do.
RoundHalfEven(n, d) ==
    LET q == n \div d
        r == n % d
    IN  IF 2 * r < d THEN q
        ELSE IF 2 * r > d THEN q + 1
        ELSE IF q % 2 = 0 THEN q ELSE q + 1

\* self.timestamps = list(numpy.rint(numpy.linspace(0, open_time - 1, width)))
Timestamps(width, open_time) ==
    [i \in 1..width |-> RoundHalfEven((i - 1) * (open_time - 1), width - 1)]

\* list(filter(lambda values: values['datetime'] == time..., raw))
FilterAt(raw, minute) == SelectSeq(raw, LAMBDA rec : rec.minute = minute)

\* The first loop of parse from grid position i on: the samples gathered,
\* up to and without the first offset with no record.  raw[-1] is the base.
RECURSIVE Gather(_, _, _)
Gather(raw, ts, i) ==
    IF i > Len(ts) THEN <<>>
    ELSE LET sample == FilterAt(raw, raw[Len(raw)].minute + ts[i])
         IN  IF sample # <<>>
             THEN <<IF ts[i] = 0 THEN sample[1].open ELSE sample[1].close>>
                      \o Gather(raw, ts, i + 1)
             ELSE <<>>

\* The offsets that loop looks up, in order: it stops after the first miss.
RECURSIVE LookedUp(_, _, _)
LookedUp(raw, ts, i) ==
    IF i > Len(ts) THEN <<>>
    ELSE IF FilterAt(raw, raw[Len(raw)].minute + ts[i]) # <<>>
         THEN <<ts[i]>> \o LookedUp(raw, ts, i + 1)
         ELSE <<ts[i]>>

SeqMax(s) == CHOOSE m \in {s[i] : i \in 1..Len(s)} : \A j \in 1..Len(s) : s[j] <= m

SeqMin(s) == CHOOSE m \in {s[i] : i \in 1..Len(s)} : \A j \in 1..Len(s) : s[j] >= m

NoGraph == [data |-> <<>>, inflection_pt |-> 0, looked |-> <<>>, outcome |-> "none"]

\* Graph.parse(raw, close_price) on a Graph g0 of the given width and
\* open_time: the Graph afterwards.  A raise leaves data and inflection_pt
\* as they were.
Parse(g0, in) ==
    LET ts      == Timestamps(in.width, in.open_time)
        samples == Gather(in.raw, ts, 1)
        looked  == LookedUp(in.raw, ts, 1)
        max0    == SeqMax(samples)
        min0    == SeqMin(samples)
        max_val == IF in.close_price > max0 THEN in.close_price ELSE max0
        min_val == IF in.close_price > max0 THEN min0
                   ELSE IF in.close_price < min0 THEN in.close_price ELSE min0
    IN  IF samples = <<>>
        THEN [g0 EXCEPT !.looked = looked, !.outcome = "ValueError"]
        ELSE IF max_val = min_val
        THEN [g0 EXCEPT !.looked = looked, !.outcome = "ZeroDivisionError"]
        ELSE [data |-> [x \in 1..Len(samples) |->
                          <<x - 1, ((samples[x] - min_val) * Height) \div (max_val - min_val)>>],
              inflection_pt |->
                  RoundHalfEven((in.close_price - min_val) * Height, max_val - min_val),
              looked |-> looked,
              outcome |-> "ok"]

\* The raw series: records newest first, one per minute of a non-empty set
\* of minutes of the session; only the oldest record's open price is read.
RECURSIVE Descending(_)
Descending(S) ==
    IF S = {} THEN <<>>
    ELSE LET m == CHOOSE x \in S : \A y \in S : y <= x
         IN  <<m>> \o Descending(S \ {m})

RawSeries ==
    UNION {
      LET ms == Descending(M)
      IN  { [i \in 1..Len(ms) |->
               [minute |-> ms[i],
                open   |-> IF i = Len(ms) THEN o ELSE c[ms[i]],
                close  |-> c[ms[i]]]] : c \in [M -> SamplePrices], o \in SamplePrices }
      : M \in SUBSET (0..(OpenTime - 1)) \ {{}} }

GraphInputs ==
    [raw : RawSeries, close_price : ClosePrices, width : 2..MaxWidth, open_time : {OpenTime}]

NoGraphInput ==
    [raw |-> <<[minute |-> 0, open |-> 99, close |-> 99]>>, close_price |-> 98,
     width |-> 2, open_time |-> OpenTime]

GraphIdle == graph_in = NoGraphInput /\ graph = NoGraph /\ canvas = <<>>

\* How parse can end, over all the inputs.
ParseOutcomes == {Parse(NoGraph, in).outcome : in \in GraphInputs}

GraphParse ==
    /\ graph.outcome = "none"
    /\ graph' = Parse(graph, graph_in)
    /\ UNCHANGED <<graph_in, canvas, marketVars, retryVars, pollVars>>

-----------------------------------------------------------------------------
(* The renderer: Stocks.Graph.draw.  The canvas is the sequence of the     *)
(* DrawLine calls made on it.                                              *)

\* green = (Color(0, 25, 0), Color(0, 255, 0)): the fill and the line colour
Green == <<<<0, 25, 0>>, <<0, 255, 0>>>>

\* red = (Color(25, 0, 0), Color(255, 0, 0))
Red == <<<<25, 0, 0>>, <<255, 0, 0>>>>

\* self.graph.draw(offscreen_canvas, 0, 31)
XOffset == 0

YOffset == 31

\* graphics.DrawLine(canvas, x0, y0, x1, y1, color)
DrawLine(x0, y0, x1, y1, color) ==
    [x0 |-> x0, y0 |-> y0, x1 |-> x1, y1 |-> y1, color |-> color]

\* The first loop without its last turn: range(0, len(self.data) - 1).
FillCallsButLast(g) ==
    [idx \in 1..(Len(g.data) - 1) |->
        LET x == g.data[idx][1]
            y == g.data[idx][2]
        IN  DrawLine(x + XOffset, YOffset - y, x + XOffset, YOffset - g.inflection_pt,
                     IF y >= g.inflection_pt THEN Green[1] ELSE Red[1])]

\* Lines 318-324, "draw area": one call per entry of self.data.
FillCalls(g) ==
    [idx \in 1..Len(g.data) |->
        LET x == g.data[idx][1]
            y == g.data[idx][2]
        IN  DrawLine(x + XOffset, YOffset - y, x + XOffset, YOffset - g.inflection_pt,
                     IF y >= g.inflection_pt THEN Green[1] ELSE Red[1])]

\* One turn of the second loop that never splits a segment.
SegmentUnsplit(g, idx) ==
    LET x == g.data[idx][1]
        y == g.data[idx][2]
        c == IF y >= g.inflection_pt THEN Green[2] ELSE Red[2]
    IN  IF x = Len(g.data) - 1
        THEN <<DrawLine(x + XOffset, YOffset - y, x + XOffset, YOffset - y, c)>>
        ELSE <<DrawLine(x + XOffset, YOffset - y, x + XOffset + 1,
                        YOffset - g.data[idx + 1][2], c)>>

\* Lines 327-348, one turn of the "draw line" loop: the calls it makes for
\* entry idx (counted from 1 here), in order.
Segment(g, idx) ==
    LET x  == g.data[idx][1]
        y  == g.data[idx][2]
        ip == g.inflection_pt
    IN  IF y >= ip
        THEN IF x = Len(g.data) - 1
             THEN <<DrawLine(x + XOffset, YOffset - y, x + XOffset, YOffset - y, Green[2])>>
             ELSE LET next_y == g.data[idx + 1][2]
                  IN  IF next_y < ip
                      THEN <<DrawLine(x + XOffset, YOffset - ip, x + XOffset + 1,
                                      YOffset - next_y, Red[2]),
                             DrawLine(x + XOffset, YOffset - y, x + XOffset + 1,
                                      YOffset - ip, Green[2])>>
                      ELSE <<DrawLine(x + XOffset, YOffset - y, x + XOffset + 1,
                                      YOffset - next_y, Green[2])>>
        ELSE IF x = Len(g.data) - 1
             THEN <<DrawLine(x + XOffset, YOffset - y, x + XOffset, YOffset - y, Red[2])>>
             ELSE LET next_y == g.data[idx + 1][2]
                  IN  IF next_y >= ip
                      THEN <<DrawLine(x + XOffset, YOffset - y, x + XOffset + 1,
                                      YOffset - ip, Red[2]),
                             DrawLine(x + XOffset, YOffset - ip, x + XOffset + 1,
                                      YOffset - next_y, Green[2])>>
                      ELSE <<DrawLine(x + XOffset, YOffset - y, x + XOffset + 1,
                                      YOffset - next_y, Red[2])>>

\* Lines 326-348, "draw line": the turns from idx on.
RECURSIVE LineCalls(_, _)
LineCalls(g, idx) ==
    IF idx > Len(g.data) THEN <<>> ELSE Segment(g, idx) \o LineCalls(g, idx + 1)

\* Graph.draw on the Graph that parse left.
GraphDraw ==
    /\ graph.outcome = "ok"
    /\ canvas = <<>>
    /\ canvas' = FillCalls(graph) \o LineCalls(graph, 1)
    /\ UNCHANGED <<graph_in, graph, marketVars, retryVars, pollVars>>

-----------------------------------------------------------------------------
(* The trading calendar: Market._is_trading_day and the two walks of       *)
(* Market._check_market_state.  A day is a day number; day 0 is a Monday.  *)

\* trading_day and previous_day before the first status check
NoDay == -1

\* datetime.weekday(): Monday is 0, Sunday is 6
Weekday(d) == d % 7

\* What the upstream answers the probe of _is_trading_day with: a non-empty
\* series exactly for the days with a session.
ProbeNonEmpty(d) == Weekday(d) <= 4 /\ d \notin holidays

\* while day.weekday() > 4 or not self._is_trading_day(day): day -= 1 day
RECURSIVE WalkBack(_)
WalkBack(d) ==
    IF Weekday(d) > 4 \/ ~ProbeNonEmpty(d) THEN WalkBack(d - 1) ELSE d

\* The days that walk calls _is_trading_day for: `or` does not probe a weekend day.
RECURSIVE WalkProbed(_)
WalkProbed(d) ==
    IF Weekday(d) > 4 THEN WalkProbed(d - 1)
    ELSE IF ProbeNonEmpty(d) THEN {d} ELSE {d} \cup WalkProbed(d - 1)

\* The first day the current-day walk looks at: yesterday before 9:30, else today.
Anchor == IF before_open THEN today - 1 ELSE today

\* The previous-day walk started on the current trading day itself.
PrevStartSameDay(trade_day) == trade_day

\* The first day the previous-day walk looks at.
PrevStart(trade_day) == trade_day - 1

-----------------------------------------------------------------------------
(* The time of the next status check: lines 119-121 and 126-127 of         *)
(* Market._check_market_state.  Instants and durations are in seconds.     *)

DigitChars == <<"0", "1", "2", "3", "4", "5", "6", "7", "8", "9">>

\* A number below 100 as two decimal digits.
TwoDigits(n) == <<DigitChars[(n \div 10) + 1], DigitChars[(n % 10) + 1]>>

\* The "HH:MM:SS" string the upstream sends for a duration.
TimeString(t) == TwoDigits(t.hh) \o <<":">> \o TwoDigits(t.mm) \o <<":">> \o TwoDigits(t.ss)

\* str.split(":")
RECURSIVE Split(_)
Split(str) ==
    IF \E i \in 1..Len(str) : str[i] = ":"
    THEN LET i == CHOOSE j \in 1..Len(str) : str[j] = ":" /\ \A k \in 1..(j - 1) : str[k] # ":"
         IN  <<SubSeq(str, 1, i - 1)>> \o Split(SubSeq(str, i + 1, Len(str)))
    ELSE <<str>>

\* int() of a string of decimal digits
RECURSIVE IntOf(_)
IntOf(str) ==
    IF str = <<>> THEN 0
    ELSE 10 * IntOf(SubSeq(str, 1, Len(str) - 1))
           + (CHOOSE d \in 0..9 : DigitChars[d + 1] = str[Len(str)])

\* response[0] of the market_state request
MarketState(in) ==
    [is_market_open |-> in.is_market_open,
     time_to_close  |-> TimeString(in.to_close),
     time_to_open   |-> TimeString(in.to_open)]

\* next_update computed without the extra minute.
NextUpdateNoMargin(response, now) ==
    LET f == Split(IF response.is_market_open THEN response.time_to_close
                   ELSE response.time_to_open)
    IN  now + 60 * (IntOf(f[1]) * 60 + IntOf(f[2]))

\* datetime.now() + timedelta(minutes=int(f[0])*60 + int(f[1]) + 1), f the
\* split time_to_close of an open market, time_to_open of a closed one.
NextUpdate(response, now) ==
    LET f == Split(IF response.is_market_open THEN response.time_to_close
                   ELSE response.time_to_open)
    IN  now + 60 * (IntOf(f[1]) * 60 + IntOf(f[2]) + 1)

\* next_update before the first poll
NoTime == -1

Durations == [hh : {0, 1, 18}, mm : {0, 30, 59}, ss : {0, 1, 59}]

ZeroDuration == [hh |-> 0, mm |-> 0, ss |-> 0]

\* The polls: an open market with some time to its close, or a closed one
\* with some time to its open, at 15:00:00, 15:59:30 or 16:00:00.
PollInputs ==
    {[is_market_open |-> o,
      to_close |-> IF o THEN t ELSE ZeroDuration,
      to_open  |-> IF o THEN ZeroDuration ELSE t,
      now      |-> n] : o \in BOOLEAN, t \in Durations, n \in {54000, 57570, 57600}}

NoPoll == [is_market_open |-> FALSE, to_close |-> ZeroDuration, to_open |-> ZeroDuration,
           now |-> 0]

PollIdle == poll_in = NoPoll /\ next_update = NoTime

PollNextUpdate ==
    /\ next_update = NoTime
    /\ next_update' = NextUpdate(MarketState(poll_in), poll_in.now)
    /\ UNCHANGED <<poll_in, marketVars, retryVars, graphVars>>

-----------------------------------------------------------------------------
(* The job store of the BackgroundScheduler, the worker threads, the cache *)
(* and the lock.                                                           *)

Symbols == {"A", "B"}

Workers == {"w1", "w2"}

\* The most one-shot jobs of one kind waiting in the job store at a time.
MaxPending == 2

CheckId == "_check_market_state"

IntervalId == "_update_trading_day_data"

\* schedule.get_jobs(alias): the jobs of the job store with that alias.  The
\* scheduler has one job store, "default".
GetJobs(alias) == IF alias = "default" THEN job_ids ELSE {}

Range(q) == {q[i] : i \in 1..Len(q)}

Remove(q, s) ==
    LET i == CHOOSE j \in 1..Len(q) : q[j] = s /\ \A k \in 1..(j - 1) : q[k] # s
    IN  SubSeq(q, 1, i - 1) \o SubSeq(q, i + 1, Len(q))

EmptyMap == [s \in {} |-> "A"]

Idle == [job |-> "idle", pc |-> "-", status |-> "-", queried |-> <<>>, res |-> "none",
         branch |-> "-", idx |-> 0, trade_day |-> NoDay, prev_day |-> NoDay,
         closes |-> 0, outcome |-> "none"]

Start(kind, at) == [Idle EXCEPT !.job = kind, !.pc = at]

\* The job function returns or raises: the worker thread is free again.  An
\* exception, SystemExit included, ends the job and nothing else.
Finish(w, how) == th' = [th EXCEPT ![w] = [Idle EXCEPT !.outcome = how]]

Goto(w, at) == th' = [th EXCEPT ![w].pc = at]

\* The keys of a multi-symbol response; a single-symbol response is a list.
IsDict(w) == th[w].res = "json" /\ Len(th[w].queried) > 1

ResKeys(w) == IF IsDict(w) THEN Range(th[w].queried) ELSE {}

\* A refresh that writes without taking the lock.
RefreshAcquireNoLock(w) == lock' = lock

\* lock.acquire() of the refreshes: blocks until the lock is free.
RefreshAcquire(w) == lock = "free" /\ lock' = w

MarketBase ==
    /\ pending_refreshes = 0
    /\ job_ids = {}
    /\ lock = "free"
    /\ th = [w \in Workers |-> Idle]
    /\ last_close_price = EmptyMap
    /\ trading_day_data = EmptyMap
    /\ close_partial = FALSE
    /\ intraday_partial = FALSE
    /\ trading_day = NoDay
    /\ previous_day = NoDay
    /\ probed = {}
    /\ probed_ok = {}
    /\ draw_pc = "idle"
    /\ draw_symbol = "A"
    /\ draw_read = FALSE

\* After Market(): no symbol is tracked and no job is scheduled.
MarketInit == MarketBase /\ symbols = <<>> /\ pending_checks = 0

calendarVars == <<trading_day, previous_day, today, before_open, holidays, probed, probed_ok>>

cacheVars == <<last_close_price, trading_day_data, close_partial, intraday_partial>>

drawVars == <<draw_pc, draw_symbol, draw_read>>

storeVars == <<pending_checks, pending_refreshes, job_ids>>

otherVars == <<retryVars, graphVars, pollVars>>

-----------------------------------------------------------------------------
(* The scheduler hands a due job to a free worker thread.                  *)

\* The job of schedule.add_job(self._check_market_state) in add_symbol.
FireOneShotCheck(w) ==
    /\ th[w].job = "idle"
    /\ pending_checks > 0
    /\ pending_checks' = pending_checks - 1
    /\ th' = [th EXCEPT ![w] = Start("check", "resolve")]
    /\ UNCHANGED <<symbols, pending_refreshes, job_ids, lock, cacheVars, calendarVars,
                   drawVars, otherVars>>

\* The 'date' job with id _check_market_state: it leaves the store when it is run.
FireDateCheck(w) ==
    /\ th[w].job = "idle"
    /\ CheckId \in job_ids
    /\ job_ids' = job_ids \ {CheckId}
    /\ th' = [th EXCEPT ![w] = Start("check", "resolve")]
    /\ UNCHANGED <<symbols, pending_checks, pending_refreshes, lock, cacheVars,
                   calendarVars, drawVars, otherVars>>

\* The job of schedule.add_job(self._update_trading_day_data) of an OPEN poll.
FireOneShotRefresh(w) ==
    /\ th[w].job = "idle"
    /\ pending_refreshes > 0
    /\ pending_refreshes' = pending_refreshes - 1
    /\ th' = [th EXCEPT ![w] = Start("oneshot", "t_query")]
    /\ UNCHANGED <<symbols, pending_checks, job_ids, lock, cacheVars, calendarVars,
                   drawVars, otherVars>>

\* The 'interval' job with id _update_trading_day_data: it stays in the store,
\* and one instance of it runs at a time (max_instances is 1).
FireInterval(w) ==
    /\ th[w].job = "idle"
    /\ IntervalId \in job_ids
    /\ \A v \in Workers : th[v].job # "interval"
    /\ th' = [th EXCEPT ![w] = Start("interval", "t_query")]
    /\ UNCHANGED <<symbols, storeVars, lock, cacheVars, calendarVars, drawVars,
                   otherVars>>

-----------------------------------------------------------------------------
(* Market._check_market_state                                              *)

\* Lines 94-104: the anchor and the two walks, each probe a call of _try_api.
CResolve(w) ==
    /\ th[w].pc = "resolve"
    /\ \E r \in ApiResults :
         LET trade_day == WalkBack(Anchor)
             prev_day  == WalkBack(PrevStart(trade_day))
             calls     == WalkProbed(Anchor) \cup WalkProbed(PrevStart(trade_day))
         IN  IF r = "exit"
             THEN /\ Finish(w, "SystemExit")
                 
                  /\ UNCHANGED <<probed, probed_ok>>
             ELSE /\ th' = [th EXCEPT ![w].trade_day = trade_day, ![w].prev_day = prev_day,
                                      ![w].pc = "set_days"]
                  /\ probed' = probed \cup calls
                  /\ probed_ok' = probed_ok \cup {d \in calls : ProbeNonEmpty(d)}
                 
    /\ UNCHANGED <<symbols, storeVars, lock, cacheVars, trading_day, previous_day, today,
                   before_open, holidays, drawVars, otherVars>>

\* Lines 106-107: lock.acquire(), then self.trading_day is assigned.
CSetDays(w) ==
    /\ th[w].pc = "set_days"
    /\ lock = "free"
    /\ lock' = w
    /\ trading_day' = th[w].trade_day
    /\ Goto(w, "set_prev")
    /\ UNCHANGED <<symbols, storeVars, cacheVars, previous_day, today, before_open,
                   holidays, probed, probed_ok, drawVars, otherVars>>

\* Lines 108-112: self.previous_day is assigned, then lock.release().
CSetPrev(w) ==
    /\ th[w].pc = "set_prev"
    /\ previous_day' = th[w].prev_day
    /\ lock' = "free"
    /\ th' = [th EXCEPT ![w].pc = "poll", ![w].trade_day = NoDay, ![w].prev_day = NoDay]
    /\ UNCHANGED <<symbols, storeVars, cacheVars, trading_day, today, before_open,
                   holidays, probed, probed_ok, drawVars, otherVars>>

\* Lines 119-124, the poll said OPEN: a one-shot refresh, then the interval
\* job unless get_jobs finds one; add_job raises ConflictingIdError for an id
\* the store holds.
PollOpen(w) ==
    /\ pending_refreshes' = pending_refreshes + 1
    /\ IF GetJobs(IntervalId) = {}
       THEN IF IntervalId \in job_ids
            THEN Finish(w, "ConflictingIdError") /\ UNCHANGED job_ids
            ELSE /\ job_ids' = job_ids \cup {IntervalId}
                 /\ th' = [th EXCEPT ![w].status = "OPEN", ![w].pc = "u_query"]
       ELSE /\ th' = [th EXCEPT ![w].status = "OPEN", ![w].pc = "u_query"]
            /\ UNCHANGED job_ids

\* Lines 125-130, the poll said CLOSED: the interval job is removed if
\* get_jobs finds one, then _update_trading_day_data is called.
PollClosed(w) ==
    /\ job_ids' = IF GetJobs(IntervalId) # {} THEN job_ids \ {IntervalId} ELSE job_ids
    /\ th' = [th EXCEPT ![w].status = "CLOSED", ![w].pc = "t_query"]
    /\ UNCHANGED pending_refreshes

\* Lines 115-130: the market-state request through _try_request, and the branch.
CPoll(w) ==
    /\ th[w].pc = "poll"
    /\ \E r \in RequestResults, is_market_open \in BOOLEAN :
         IF r = "exit"
         THEN Finish(w, "SystemExit")
              /\ UNCHANGED <<job_ids, pending_refreshes>>
         ELSE
              /\ IF is_market_open
                 THEN pending_refreshes < MaxPending /\ PollOpen(w)
                 ELSE PollClosed(w)
    /\ UNCHANGED <<symbols, pending_checks, lock, cacheVars, calendarVars, drawVars,
                   otherVars>>

\* Line 135: the next status check, a 'date' job with a fixed id.
CSchedule(w) ==
    /\ th[w].pc = "sched"
    /\ IF CheckId \in job_ids
       THEN Finish(w, "ConflictingIdError") /\ UNCHANGED job_ids
       ELSE Finish(w, "ok") /\ job_ids' = job_ids \cup {CheckId}
    /\ UNCHANGED <<symbols, pending_checks, pending_refreshes, lock, cacheVars,
                   calendarVars, drawVars, otherVars>>

-----------------------------------------------------------------------------
(* Market._update_trading_day_data: as a job, or called by a CLOSED poll.  *)

\* Lines 161-171: the assertions, then the batched query through _try_api.
TQuery(w) ==
    /\ th[w].pc = "t_query"
    /\ IF trading_day = NoDay \/ symbols = <<>>
       THEN Finish(w, "AssertionError")
       ELSE \E r \in ApiResults :
              IF r = "exit"
              THEN Finish(w, "SystemExit")
              ELSE /\ th' = [th EXCEPT ![w].queried = symbols, ![w].res = r,
                                       ![w].pc = "t_begin"]
                  
    /\ UNCHANGED <<symbols, storeVars, lock, cacheVars, calendarVars, drawVars, otherVars>>

\* Lines 173-175 / 177-178: the lock, the test self.symbols[0] in res, clear().
TBegin(w) ==
    /\ th[w].pc = "t_begin"
    /\ RefreshAcquire(w)
    /\ IF symbols = <<>>
       THEN Finish(w, "IndexError") /\ UNCHANGED <<trading_day_data, intraday_partial>>
       ELSE IF th[w].res = "False"
       THEN Finish(w, "TypeError") /\ UNCHANGED <<trading_day_data, intraday_partial>>
       ELSE /\ trading_day_data' = EmptyMap
            /\ intraday_partial' = TRUE
            /\ th' = [th EXCEPT ![w].pc = "t_assign",
                                ![w].branch = IF symbols[1] \in ResKeys(w)
                                              THEN "many" ELSE "single"]
    /\ UNCHANGED <<symbols, storeVars, last_close_price, close_partial, calendarVars,
                   drawVars, otherVars>>

\* After the refresh: the status check goes on to line 132, a job is over.
AfterIntraday(w) ==
    IF th[w].job = "check"
    THEN th' = [th EXCEPT ![w] = [Idle EXCEPT !.job = "check", !.status = th[w].status,
                                              !.pc = "u_query"]]
    ELSE Finish(w, "ok")

\* Lines 176 / 179 and 180: the assignment and the release.
TAssign(w) ==
    /\ th[w].pc = "t_assign"
    /\ IF th[w].branch = "many"
       THEN /\ trading_day_data' = [s \in ResKeys(w) |-> s]
            /\ intraday_partial' = FALSE
            /\ lock' = "free"
            /\ AfterIntraday(w)
       ELSE IF symbols = <<>>
       THEN Finish(w, "IndexError") /\ UNCHANGED <<trading_day_data, intraday_partial, lock>>
       ELSE /\ trading_day_data' =
                  [s \in {symbols[1]} |-> IF IsDict(w) THEN "dict" ELSE th[w].queried[1]]
            /\ intraday_partial' = FALSE
            /\ lock' = "free"
            /\ AfterIntraday(w)
    /\ UNCHANGED <<symbols, storeVars, last_close_price, close_partial, calendarVars,
                   drawVars, otherVars>>

-----------------------------------------------------------------------------
(* Market._update_last_close_price, called by every status check.          *)

\* Lines 138-148: the assertions, then the batched query through _try_api.
UQuery(w) ==
    /\ th[w].pc = "u_query"
    /\ IF previous_day = NoDay \/ symbols = <<>>
       THEN Finish(w, "AssertionError")
       ELSE \E r \in ApiResults :
              IF r = "exit"
              THEN Finish(w, "SystemExit")
              ELSE /\ th' = [th EXCEPT ![w].queried = symbols, ![w].res = r,
                                       ![w].pc = "u_begin"]
                  
    /\ UNCHANGED <<symbols, storeVars, lock, cacheVars, calendarVars, drawVars, otherVars>>

\* Lines 150-152 / 155-156: the lock, the test self.symbols[0] in res, clear().
UBegin(w) ==
    /\ th[w].pc = "u_begin"
    /\ RefreshAcquire(w)
    /\ IF symbols = <<>>
       THEN Finish(w, "IndexError") /\ UNCHANGED <<last_close_price, close_partial>>
       ELSE IF th[w].res = "False"
       THEN Finish(w, "TypeError") /\ UNCHANGED <<last_close_price, close_partial>>
       ELSE /\ last_close_price' = EmptyMap
            /\ close_partial' = TRUE
            /\ th' = [th EXCEPT ![w].pc = "u_fill", ![w].idx = 1,
                                ![w].branch = IF symbols[1] \in ResKeys(w)
                                              THEN "many" ELSE "single"]
    /\ UNCHANGED <<symbols, storeVars, trading_day_data, intraday_partial, calendarVars,
                   drawVars, otherVars>>

\* The refresh is over: the status check goes on to line 134.
AfterClose(w) ==
    th' = [th EXCEPT ![w] = [Idle EXCEPT !.job = "check", !.status = th[w].status,
                                        !.pc = "sched", !.closes = th[w].closes + 1]]

Put(map, s, v) == [x \in DOMAIN map \cup {s} |-> IF x = s THEN v ELSE map[x]]

\* Lines 153-154, one turn of the loop over the live list, or line 157; then
\* the release of line 158.
UFill(w) ==
    /\ th[w].pc = "u_fill"
    /\ IF th[w].branch = "many"
       THEN IF th[w].idx <= Len(symbols)
            THEN IF symbols[th[w].idx] \in ResKeys(w)
                 THEN /\ last_close_price' =
                            Put(last_close_price, symbols[th[w].idx], symbols[th[w].idx])
                      /\ th' = [th EXCEPT ![w].idx = @ + 1]
                      /\ UNCHANGED <<close_partial, lock>>
                 ELSE Finish(w, "KeyError") /\ UNCHANGED <<last_close_price, close_partial, lock>>
            ELSE /\ close_partial' = FALSE
                 /\ lock' = "free"
                 /\ AfterClose(w)
                 /\ UNCHANGED last_close_price
       ELSE IF IsDict(w)
       THEN Finish(w, "KeyError") /\ UNCHANGED <<last_close_price, close_partial, lock>>
       ELSE IF symbols = <<>>
       THEN Finish(w, "IndexError") /\ UNCHANGED <<last_close_price, close_partial, lock>>
       ELSE /\ last_close_price' = Put(last_close_price, symbols[1], th[w].queried[1])
            /\ close_partial' = FALSE
            /\ lock' = "free"
            /\ AfterClose(w)
    /\ UNCHANGED <<symbols, storeVars, trading_day_data, intraday_partial, calendarVars,
                   drawVars, otherVars>>

-----------------------------------------------------------------------------
(* The main thread: the subscriber calls and Stocks.draw.  A Stocks object *)
(* subscribes its symbol when it is made and unsubscribes it in __del__,   *)
(* and there is one Stocks object per symbol.                              *)

\* Market.add_symbol
AddSymbol(s) ==
    /\ draw_pc = "idle"
    /\ s \notin Range(symbols)
    /\ symbols' = Append(symbols, s)
    /\ IF Len(symbols') = 1
       THEN pending_checks < MaxPending /\ pending_checks' = pending_checks + 1
       ELSE UNCHANGED pending_checks
    /\ UNCHANGED <<pending_refreshes, job_ids, lock, th, cacheVars, calendarVars, 
                   drawVars, otherVars>>

\* Market.remove_symbol
RemoveSymbol(s) ==
    /\ draw_pc = "idle"
    /\ s \in Range(symbols)
    /\ symbols' = Remove(symbols, s)
    /\ UNCHANGED <<storeVars, lock, th, cacheVars, calendarVars, drawVars, otherVars>>

\* has_data looking at the intraday map alone.
HasDataIntradayOnly(s) == s \in DOMAIN trading_day_data

\* Market.has_data
HasData(s) == s \in DOMAIN trading_day_data /\ s \in DOMAIN last_close_price

\* Line 235: lock.acquire() of draw.
DrawAcquire(s) ==
    /\ draw_pc = "idle"
    /\ s \in Range(symbols)
    /\ lock = "free"
    /\ lock' = "main"
    /\ draw_pc' = "locked"
    /\ draw_symbol' = s
    /\ UNCHANGED <<symbols, storeVars, th, cacheVars, calendarVars, draw_read,
                   otherVars>>

\* How lines 248-266 end for the cached series: Graph.parse raises on a
\* series with no range, and on a whole response stored as one series.
DrawOutcomes(s) == IF trading_day_data[s] = "dict" THEN {"KeyError"} ELSE ParseOutcomes

\* Lines 246-270: the cache is read if has_data, else the dashes are drawn.
DrawBody ==
    /\ draw_pc = "locked"
    /\ IF HasData(draw_symbol)
       THEN /\ draw_read' = TRUE
            /\ \E o \in DrawOutcomes(draw_symbol) :
                 draw_pc' = IF o = "ok" THEN "drawn" ELSE "failed"
       ELSE /\ draw_read' = FALSE
            /\ draw_pc' = "drawn"
    /\ UNCHANGED <<symbols, storeVars, lock, th, cacheVars, calendarVars, 
                   draw_symbol, otherVars>>

\* Line 272: lock.release() of draw, and the return.
DrawRelease ==
    /\ draw_pc = "drawn"
    /\ lock' = "free"
    /\ draw_pc' = "idle"
    /\ draw_symbol' = "A"
    /\ draw_read' = FALSE
    /\ UNCHANGED <<symbols, storeVars, th, cacheVars, calendarVars, otherVars>>

-----------------------------------------------------------------------------
(* The clock, for the calendar's specification.                            *)

\* The day the model starts on, a Monday, and the days it runs on from there.
FirstDay == 7

DaySpan == 2

\* How far back of FirstDay a holiday may lie.
HolidaySpan == 3

Tick ==
    /\ IF before_open
       THEN before_open' = FALSE /\ UNCHANGED today
       ELSE today < FirstDay + DaySpan /\ before_open' = TRUE /\ today' = today + 1
    /\ UNCHANGED <<symbols, storeVars, lock, th, cacheVars, trading_day, previous_day,
                   holidays, probed, probed_ok, drawVars, otherVars>>

-----------------------------------------------------------------------------
(* The specifications.                                                     *)

\* A step of worker thread w.
WorkerStep(w) ==
    \/ FireOneShotCheck(w)
    \/ FireDateCheck(w)
    \/ FireOneShotRefresh(w)
    \/ FireInterval(w)
    \/ CResolve(w)
    \/ CSetDays(w)
    \/ CSetPrev(w)
    \/ CPoll(w)
    \/ CSchedule(w)
    \/ TQuery(w)
    \/ TBegin(w)
    \/ TAssign(w)
    \/ UQuery(w)
    \/ UBegin(w)
    \/ UFill(w)

\* A step of the main thread for the Stocks object of symbol s.
MainStep(s) ==
    \/ AddSymbol(s)
    \/ RemoveSymbol(s)
    \/ DrawAcquire(s)

StartOfDay ==
    /\ today = FirstDay
    /\ before_open = TRUE
    /\ holidays = {}

MarketStart == MarketInit /\ StartOfDay

\* The engine with every worker thread and one Stocks object.
Init == MarketStart /\ RetryIdle /\ GraphIdle /\ PollIdle

Next ==
    \/ \E w \in Workers : WorkerStep(w)
    \/ MainStep("A")
    \/ DrawBody
    \/ DrawRelease

Spec == Init /\ [][Next]_vars

\* The engine with one worker thread and a Stocks object per symbol.
NextCache ==
    \/ WorkerStep("w1")
    \/ \E s \in Symbols : MainStep(s)
    \/ DrawBody
    \/ DrawRelease

SpecCache == Init /\ [][NextCache]_vars

\* The engine with every worker thread, after Stocks objects for both
\* symbols were made (main.py): two tracked symbols, the first status check
\* scheduled, and no subscriber call from then on.
InitSubscribed ==
    /\ MarketBase
    /\ symbols = <<"A", "B">>
    /\ pending_checks = 1
    /\ StartOfDay
    /\ RetryIdle
    /\ GraphIdle
    /\ PollIdle

NextSubscribed ==
    \/ \E w \in Workers : WorkerStep(w)
    \/ \E s \in Symbols : DrawAcquire(s)
    \/ DrawBody
    \/ DrawRelease

SpecSubscribed == InitSubscribed /\ [][NextSubscribed]_vars

\* The trading calendar: the first part of the status check, from every
\* day of the span on and under every set of holidays.
InitCalendar ==
    /\ MarketInit
    /\ today \in FirstDay..(FirstDay + DaySpan)
    /\ before_open \in BOOLEAN
    /\ holidays \in SUBSET {d \in (FirstDay - HolidaySpan)..(FirstDay + DaySpan) :
                               Weekday(d) <= 4}
    /\ RetryIdle
    /\ GraphIdle
    /\ PollIdle

NextCalendar ==
    \/ \E w \in Workers :
         \/ FireOneShotCheck(w)
         \/ CResolve(w)
         \/ CSetDays(w)
         \/ CSetPrev(w)
    \/ AddSymbol("A")
    \/ RemoveSymbol("A")
    \/ Tick

SpecCalendar == InitCalendar /\ [][NextCalendar]_vars

\* The retrying client: one call of either function against every script.
InitRetry ==
    /\ MarketStart
    /\ script \in Scripts
    /\ call_fn = "none"
    /\ call_out = NoCall
    /\ GraphIdle
    /\ PollIdle

NextRetry == CallTryApi \/ CallTryRequest

SpecRetry == InitRetry /\ [][NextRetry]_vars

\* The sampler: one parse of every input.
InitSampler ==
    /\ MarketStart
    /\ RetryIdle
    /\ graph_in \in GraphInputs
    /\ graph = NoGraph
    /\ canvas = <<>>
    /\ PollIdle

NextSampler == GraphParse \/ GraphDraw

SpecSampler == InitSampler /\ [][NextSampler]_vars

\* The next status check: one computation of next_update for every poll.
InitPoll ==
    /\ MarketStart
    /\ RetryIdle
    /\ GraphIdle
    /\ poll_in \in PollInputs
    /\ next_update = NoTime

NextPoll == PollNextUpdate

SpecPoll == InitPoll /\ [][NextPoll]_vars

-----------------------------------------------------------------------------
(* The claims.                                                             *)

\* What a completed refresh of all the tracked symbols leaves in a map.
FullMap == [s \in Symbols |-> s]

\* C1: whenever draw holds the lock and reads the cache, neither map is
\* between its clear() and the end of its refill, and each is the complete
\* result of one refresh (or still the empty map of Market()).
C1_NoPartialRead ==
    draw_pc = "locked" =>
        /\ lock = "main"
        /\ ~close_partial /\ ~intraday_partial
        /\ last_close_price \in {EmptyMap, FullMap}
        /\ trading_day_data \in {EmptyMap, FullMap}

\* C1: draw reads both maps, filled by completed refreshes, while another
\* refresh has its response and waits for the lock.
C1_Witness ==
    /\ draw_pc = "locked"
    /\ DOMAIN last_close_price = Symbols
    /\ DOMAIN trading_day_data = Symbols
    /\ \E w \in Workers : th[w].pc \in {"t_begin", "u_begin"}

\* The status-check transitions executing or pending.
CheckTransitions ==
    pending_checks + (IF CheckId \in job_ids THEN 1 ELSE 0)
        + Cardinality({w \in Workers : th[w].job = "check"})

\* C2: at most one status-check transition is executing or pending.
C2_Serialized == CheckTransitions <= 1

\* C3: a status check whose poll returns OPEN leaves the recurring job
\* installed and does not raise, whether or not the job was installed before.
C3_OpenInstalls ==
    [][\A w \in Workers :
          th[w].pc = "poll" =>
             /\ th'[w].outcome # "ConflictingIdError"
             /\ (th'[w].status = "OPEN" => IntervalId \in job_ids')]_vars

\* C4: after the CLOSED branch of a status check no recurring job remains
\* installed.
C4_ClosedRemoves ==
    [][\A w \in Workers :
          (th[w].pc = "poll" /\ th'[w].status = "CLOSED") => IntervalId \notin job_ids']_vars

\* C5: a status check that ends (other than by the exit of an exhausted
\* retry budget) has scheduled the next status check.
C5_ChainContinues ==
    [][\A w \in Workers :
          (th[w].job = "check" /\ th'[w].job = "idle" /\ th'[w].outcome # "SystemExit")
              => CheckId \in job_ids']_vars

\* C6: once a call has exhausted its attempts and called exit(), nothing
\* executes any more: no job, no cache write, no render step.
C6_ExhaustionTerminates ==
    [][(\E w \in Workers : th[w].outcome = "SystemExit") => UNCHANGED vars]_vars

\* Whether the called function retries after this attempt outcome.
Transient(o) == IF call_fn = "api" THEN o = "quota" ELSE o # "ok"

C8_BadRequestIsNoData == \A w \in Workers : th[w].outcome # "TypeError"

\* C9: in every state in which both trading days are set, previous_day is
\* strictly earlier than trading_day, both are weekdays, and both are days
\* the probe returned a non-empty result for.
C9_TradingDays ==
    (trading_day # NoDay /\ previous_day # NoDay) =>
        /\ previous_day < trading_day
        /\ Weekday(trading_day) <= 4
        /\ Weekday(previous_day) <= 4
        /\ {trading_day, previous_day} \subseteq probed_ok

\* The number of leading grid offsets, in grid order, for which the raw
\* series has a record timestamped session open (raw[-1]) + offset.
RECURSIVE LeadingFound(_, _, _)
LeadingFound(raw, ts, i) ==
    IF i <= Len(ts) /\ \E j \in 1..Len(raw) : raw[j].minute = raw[Len(raw)].minute + ts[i]
    THEN 1 + LeadingFound(raw, ts, i + 1)
    ELSE 0

\* C10: parse emits exactly k PixelSamples with x = 0..k-1, k the number of
\* leading grid offsets that have a record; k <= W; and no offset after the
\* first missing one is looked up.
C10_SamplerPrefix ==
    graph.outcome # "none" =>
        LET ts == Timestamps(graph_in.width, graph_in.open_time)
            k  == LeadingFound(graph_in.raw, ts, 1)
        IN  /\ k <= graph_in.width
            /\ Len(graph.data) = k
            /\ \A x \in 1..Len(graph.data) : graph.data[x][1] = x - 1
            /\ graph.looked = SubSeq(ts, 1, IF k < graph_in.width THEN k + 1 ELSE k)

\* The samples the first loop of the last parse gathered.
Gathered == Gather(graph_in.raw, Timestamps(graph_in.width, graph_in.open_time), 1)

\* C11: when every gathered sample equals the close price, parse completes
\* without a division by zero, and every sample height and the inflection
\* height are 0.
C11_ZeroRange ==
    (graph.outcome # "none" /\ \A i \in 1..Len(Gathered) : Gathered[i] = graph_in.close_price) =>
        /\ graph.outcome = "ok"
        /\ Len(graph.data) = Len(Gathered)
        /\ \A x \in 1..Len(graph.data) : graph.data[x][2] = 0
        /\ graph.inflection_pt = 0

\* Both maps hold an entry for the symbol being drawn.
InBothMaps == draw_symbol \in DOMAIN trading_day_data /\ draw_symbol \in DOMAIN last_close_price

\* C12: draw reads the cache for its symbol only when both maps contain
\* the symbol; otherwise it draws the dashes without reading, raises nothing
\* and goes on to release the lock.
C12_PlaceholderUntilData ==
    [][/\ (draw_pc = "locked" /\ draw_pc' # "locked") =>
              IF InBothMaps THEN draw_read' ELSE draw_pc' = "drawn" /\ ~draw_read'
       /\ draw_read' => InBothMaps'
       /\ (draw_pc = "drawn" /\ draw_pc' # "drawn") => (lock' = "free" /\ draw_pc' = "idle")]_vars

\* C12: draw drew the dashes for a symbol that the intraday map holds and
\* the close map does not yet.
C12_Witness ==
    /\ draw_pc = "drawn"
    /\ ~draw_read
    /\ draw_symbol \in DOMAIN trading_day_data
    /\ draw_symbol \notin DOMAIN last_close_price

\* Worker thread w makes an upstream request (and sleeps its retry delays)
\* in this step: a probe walk, the status poll, or a refresh's batched query.
Requests(w) ==
    /\ th[w].pc \in {"resolve", "poll", "t_query", "u_query"}
    /\ th'[w] # th[w]
    /\ th'[w].outcome # "AssertionError"

\* C13: no thread makes an upstream request or sleeps a retry delay while
\* the lock it acquired is held, so draw never waits for the lock through
\* network I/O.
C13_NoRequestUnderLock == [][\A w \in Workers : Requests(w) => lock # w]_vars

\* The duration to the transition the poll reported, in seconds.
TimeToTransition ==
    LET t == IF poll_in.is_market_open THEN poll_in.to_close ELSE poll_in.to_open
    IN  t.hh * 3600 + t.mm * 60 + t.ss

\* C14 as stated: next_update is now + time_to_close (open) or time_to_open
\* (closed) + 1 minute, for every HH:MM:SS value.
C14_NextCheckExact ==
    next_update # NoTime => next_update = poll_in.now + TimeToTransition + 60

\* C14 as amended: next_update is now + the hours and minutes of the
\* duration, its seconds field dropped, + 1 minute.
C14_NextCheckWholeMinutes ==
    next_update # NoTime =>
        next_update = poll_in.now + (TimeToTransition - (TimeToTransition % 60)) + 60

\* C14: a closed market at 16:00:00 with 18:30:59 to its open.
C14_Witness ==
    /\ next_update # NoTime
    /\ ~poll_in.is_market_open
    /\ poll_in.now = 57600
    /\ poll_in.to_open = [hh |-> 18, mm |-> 30, ss |-> 59]

\* The sample extremes of the last parse, widened to include the close price.
WidenedMax == IF graph_in.close_price > SeqMax(Gathered) THEN graph_in.close_price ELSE SeqMax(Gathered)

WidenedMin == IF graph_in.close_price < SeqMin(Gathered) THEN graph_in.close_price ELSE SeqMin(Gathered)

\* C15: with a non-zero range, every gathered sample's height is
\* round((sample - min_val) * scale), scale = height / (max_val - min_val),
\* and inflection_pt is round((close_price - min_val) * scale).
C15_RoundedHeights ==
    (graph.outcome # "none" /\ WidenedMax # WidenedMin) =>
        /\ graph.outcome = "ok"
        /\ Len(graph.data) = Len(Gathered)
        /\ \A x \in 1..Len(graph.data) :
              graph.data[x][2] =
                  RoundHalfEven((Gathered[x] - WidenedMin) * Height, WidenedMax - WidenedMin)
        /\ graph.inflection_pt =
              RoundHalfEven((graph_in.close_price - WidenedMin) * Height, WidenedMax - WidenedMin)

\* The latest weekday on or before day d whose probe is non-empty.
LatestSession(d) ==
    CHOOSE x \in (d - 14)..d :
        /\ Weekday(x) <= 4 /\ ProbeNonEmpty(x)
        /\ \A y \in (x + 1)..d : ~(Weekday(y) <= 4 /\ ProbeNonEmpty(y))

\* C16: the resolution returns as current trading day the latest weekday on
\* or before the anchor (today, or yesterday before the open) whose probe is
\* non-empty, as previous trading day the latest such weekday strictly
\* before it, and probes no weekend day.
C16_Resolution ==
    [][\A w \in Workers :
          (th[w].pc = "resolve" /\ th'[w].pc = "set_days") =>
             /\ th'[w].trade_day = LatestSession(IF before_open THEN today - 1 ELSE today)
             /\ th'[w].prev_day = LatestSession(th'[w].trade_day - 1)
             /\ \A d \in probed' : Weekday(d) <= 4]_vars

\* C16: a resolution that walked back over a weekend or a holiday for both days.
C16_Witness ==
    \E w \in Workers :
        /\ th[w].pc = "set_days"
        /\ th[w].trade_day < (IF before_open THEN today - 1 ELSE today)
        /\ th[w].prev_day < th[w].trade_day - 1
        /\ \E h \in holidays : th[w].prev_day < h /\ h < th[w].trade_day

\* C17: every status check that ends (other than by the exit of an
\* exhausted retry budget) has completed exactly one previous-close refresh,
\* and the next status check is scheduled only after that refresh.
C17_OneCloseRefresh ==
    [][\A w \in Workers :
          /\ (th[w].job = "check" /\ th'[w].job = "idle" /\ th'[w].outcome # "SystemExit")
                => th[w].closes = 1
          /\ (th[w].job = "check" /\ CheckId \notin job_ids /\ CheckId \in job_ids')
                => th[w].closes = 1]_vars

\* A status check that gets as far as scheduling the next one has completed
\* exactly one previous-close refresh.
OneCloseBeforeSchedule ==
    \A w \in Workers : th[w].pc = "sched" => th[w].closes = 1

\* The line-segment calls on the canvas: those in a line colour.
LineColours == {<<0, 255, 0>>, <<255, 0, 0>>}

LinesDrawn == SelectSeq(canvas, LAMBDA call : call.color \in LineColours)

\* The line colour of the side of inflection_pt that height y is on.
SideColour(y) == IF y >= graph.inflection_pt THEN <<0, 255, 0>> ELSE <<255, 0, 0>>

\* The piece of the segment leaving sample i that starts at the sample, and
\* the piece that ends at the next sample; each in its own side's colour.
StartPiece(i) ==
    [x0 |-> graph.data[i][1], y0 |-> 31 - graph.data[i][2],
     x1 |-> graph.data[i][1] + 1, y1 |-> 31 - graph.inflection_pt,
     color |-> SideColour(graph.data[i][2])]

EndPiece(i) ==
    [x0 |-> graph.data[i][1], y0 |-> 31 - graph.inflection_pt,
     x1 |-> graph.data[i][1] + 1, y1 |-> 31 - graph.data[i + 1][2],
     color |-> SideColour(graph.data[i + 1][2])]

Straddles(i) ==
    i < Len(graph.data) /\ SideColour(graph.data[i][2]) # SideColour(graph.data[i + 1][2])

\* The calls for sample i when its segment does not straddle: the dot of
\* the final column, or one line to the next sample.
WholeSegment(i) ==
    [x0 |-> graph.data[i][1], y0 |-> 31 - graph.data[i][2],
     x1 |-> IF i = Len(graph.data) THEN graph.data[i][1] ELSE graph.data[i][1] + 1,
     y1 |-> 31 - graph.data[IF i = Len(graph.data) THEN i ELSE i + 1][2],
     color |-> SideColour(graph.data[i][2])]

\* The line calls from sample i on, a straddling segment as the start
\* piece and then the end piece.
RECURSIVE StartThenEnd(_)
StartThenEnd(i) ==
    IF i > Len(graph.data) THEN <<>>
    ELSE (IF Straddles(i) THEN <<StartPiece(i), EndPiece(i)>> ELSE <<WholeSegment(i)>>)
            \o StartThenEnd(i + 1)

\* The same, a straddling segment as its down-coloured piece and then its
\* up-coloured piece.
RECURSIVE DownThenUp(_)
DownThenUp(i) ==
    IF i > Len(graph.data) THEN <<>>
    ELSE (IF Straddles(i)
          THEN IF graph.data[i][2] >= graph.inflection_pt
               THEN <<EndPiece(i), StartPiece(i)>>
               ELSE <<StartPiece(i), EndPiece(i)>>
          ELSE <<WholeSegment(i)>>)
            \o DownThenUp(i + 1)

\* C18 as stated: per adjacent pair one line in the side's colour, or, when
\* the pair straddles inflection_pt, the start side's piece and then the end
\* side's piece, for upward and downward crossings alike; a dot for the
\* final column.
C18_StartPieceFirst == canvas # <<>> => LinesDrawn = StartThenEnd(1)

\* C18 as amended: the same lines, the two pieces of a straddling pair
\* issued down-coloured piece first and up-coloured piece second.
C18_DownPieceFirst == canvas # <<>> => LinesDrawn = DownThenUp(1)

\* C18: a drawn series that crosses inflection_pt downward and upward.
C18_Witness ==
    /\ canvas # <<>>
    /\ \E i \in 1..(Len(graph.data) - 1) :
          graph.data[i][2] >= graph.inflection_pt /\ graph.data[i + 1][2] < graph.inflection_pt
    /\ \E i \in 1..(Len(graph.data) - 1) :
          graph.data[i][2] < graph.inflection_pt /\ graph.data[i + 1][2] >= graph.inflection_pt

\* C19: the first calls of a draw are the fills, exactly one per entry of
\* data and in its order (the last column included), each from the sample's
\* height to inflection_pt in the up fill colour when y >= inflection_pt and
\* in the down fill colour otherwise; every call after them is a line call.
C19_FillsThenLines ==
    canvas # <<>> =>
        LET n == Len(graph.data)
        IN  /\ Len(canvas) >= n
            /\ \A i \in 1..n :
                  canvas[i] = [x0 |-> graph.data[i][1], y0 |-> 31 - graph.data[i][2],
                               x1 |-> graph.data[i][1], y1 |-> 31 - graph.inflection_pt,
                               color |-> IF graph.data[i][2] >= graph.inflection_pt
                                         THEN <<0, 25, 0>> ELSE <<25, 0, 0>>]
            /\ \A i \in (n + 1)..Len(canvas) : canvas[i].color \in LineColours

\* C19: a draw of three or more columns with fills of both colours, the
\* last column's among them.
C19_Witness ==
    /\ Len(graph.data) >= 3
    /\ Len(canvas) > Len(graph.data)
    /\ canvas[Len(graph.data)].color = <<25, 0, 0>>
    /\ \E i \in 1..Len(graph.data) : canvas[i].color = <<0, 25, 0>>

\* C20: every operation that acquired the lock has released it when it is
\* over, however it ended: no finished job and no failed draw holds the lock.
C20_LockReleased ==
    /\ \A w \in Workers : th[w].job = "idle" => lock # w
    /\ draw_pc = "failed" => lock # "main"

\* C21: whenever a refresh runs its assertions and sends its batched query,
\* the tracked symbol list is non-empty.
C21_SymbolsAtRefresh ==
    [][\A w \in Workers :
          (th[w].pc \in {"t_query", "u_query"} /\ th'[w] # th[w]) => symbols # <<>>]_vars

\* The map holding exactly the symbols thread w queried, each with its own data.
QueriedMap(w) == [s \in Range(th[w].queried) |-> s]

\* Thread w holds a response and has not finished writing it to the cache.
WritingIntraday(w) == th[w].pc \in {"t_begin", "t_assign"} /\ th[w].res = "json"

WritingClose(w) == th[w].pc \in {"u_begin", "u_fill"} /\ th[w].res = "json"

\* C22: a refresh that got its response completes, whatever add_symbol and
\* remove_symbol did since the query was sent, and the map it installs
\* holds exactly the symbols that were queried, each with its own data.
C22_InstallsQueried ==
    [][\A w \in Workers :
          /\ (WritingIntraday(w) /\ th'[w].pc \notin {"t_begin", "t_assign"}) =>
                (th'[w].outcome \in {"none", "ok"} /\ trading_day_data' = QueriedMap(w))
          /\ (WritingClose(w) /\ th'[w].pc \notin {"u_begin", "u_fill"}) =>
                (th'[w].outcome \in {"none", "ok"} /\ last_close_price' = QueriedMap(w))]_vars

=============================================================================
